---- MODULE Spec2Model ----
(***************************************************************************)
(* A model of spconv/__init__.py: scatter_nd, SparseConvTensor (its         *)
(* constructor, from_dense / to_sparse_dim, dense, find_indice_pair,        *)
(* spatial_size, sparity) and the modules ToSparse, ToDense and RemoveGrid. *)
(*                                                                         *)
(* A torch tensor is a record [shape, data]: data is the contiguous         *)
(* row-major buffer, so view, permute and fancy indexing are computed on    *)
(* offsets as torch computes them.  Feature values are small naturals (the  *)
(* code only copies them and tests them against zero).                      *)
(***************************************************************************)
EXTENDS Integers, Sequences, FiniteSets, TLC

\* ---- bounds of the model ------------------------------------------------
MaxVolume == 6      \* largest number of elements of a dense input
MaxRank == 2        \* largest number of spatial dimensions k
MaxVal == 1         \* feature values are 0..MaxVal
MaxNnz == 2         \* largest number of nonzero elements of a dense input
MaxPoints == 2      \* largest number of rows of a directly constructed tensor
NumTensors == 2     \* objects alive in the cache scenario

None == "None"                       \* Python's None
Keys == {"subm1", "spconv2"}         \* indice_key strings used by callers
Rulebooks == {"pairsA", "pairsB"}    \* opaque rulebook values
Values == 0..MaxVal

\* ---- tensors -------------------------------------------------------------
RECURSIVE Prod(_)
Prod(s) == IF s = <<>> THEN 1 ELSE Head(s) * Prod(Tail(s))

Tensor(shape, data) == [shape |-> shape, data |-> data]

NoTensor == Tensor(<<0>>, <<>>)

RECURSIVE Offset(_, _, _)
Offset(idx, shape, n) ==
    IF n = 0 THEN 0 ELSE Offset(idx, shape, n - 1) * shape[n] + idx[n]

\* row-major offset of the 0-based multi-index idx
Ravel(idx, shape) == Offset(idx, shape, Len(shape))

\* 0-based multi-index of the row-major offset lin
Unravel(lin, shape) ==
    [i \in 1..Len(shape) |->
        (lin \div Prod(SubSeq(shape, i + 1, Len(shape)))) % shape[i]]

At(a, idx) == a.data[Ravel(idx, a.shape) + 1]

\* row n (1-based) of a 2-d tensor, as a sequence
Row(a, n) == [c \in 1..a.shape[2] |-> a.data[(n - 1) * a.shape[2] + c]]

\* tensor.permute(*dims).contiguous(), dims 0-based as in the source
Permute(a, dims) ==
    LET r == Len(dims)
        oshape == [i \in 1..r |-> a.shape[dims[i] + 1]]
        src(oidx) == [d \in 1..r |-> oidx[CHOOSE i \in 1..r : dims[i] + 1 = d]]
    IN  Tensor(oshape, [l \in 1..Prod(oshape) |-> At(a, src(Unravel(l - 1, oshape)))])

\* to_sparse with a fault: explicit zeros are kept as entries
to_sparse_keepsZeros(x) ==
    [indices |-> [j \in 1..Prod(x.shape) |-> Unravel(j - 1, x.shape)],
     values  |-> [j \in 1..Prod(x.shape) |-> x.data[j]]]

\* ---- x.to_sparse(): COO entries of the nonzero elements, row-major order --
to_sparse(x) ==
    LET nz == SelectSeq([l \in 1..Prod(x.shape) |-> l], LAMBDA l : x.data[l] # 0)
    IN  [indices |-> [j \in 1..Len(nz) |-> Unravel(nz[j] - 1, x.shape)],
         values  |-> [j \in 1..Len(nz) |-> x.data[nz[j]]]]

\* unique_consecutive with a fault: equal neighbours are not merged
unique_consecutive_noMerge(cols) ==
    [values |-> cols, counts |-> [j \in 1..Len(cols) |-> 1]]

\* tensor.unique_consecutive(dim=1, return_counts=True) over a list of columns
RECURSIVE unique_consecutive(_)
unique_consecutive(cols) ==
    IF cols = <<>> THEN [values |-> <<>>, counts |-> <<>>]
    ELSE LET n == Len(cols)
             r == unique_consecutive(SubSeq(cols, 1, n - 1))
             m == Len(r.values)
         IN  IF m > 0 /\ r.values[m] = cols[n]
             THEN [values |-> r.values,
                   counts |-> [r.counts EXCEPT ![m] = r.counts[m] + 1]]
             ELSE [values |-> Append(r.values, cols[n]),
                   counts |-> Append(r.counts, 1)]

RECURSIVE Repeat(_, _)
Repeat(v, n) == IF n = 0 THEN <<>> ELSE <<v>> \o Repeat(v, n - 1)

\* Labels with a fault: the labels start at 1
RECURSIVE Labels_fromOne(_, _)
Labels_fromOne(counts, n) ==
    IF n = 0 THEN <<>> ELSE Labels_fromOne(counts, n - 1) \o Repeat(n, counts[n])

\* tmp = []; for i in range(labels_count.shape[0]): tmp += [i] * labels_count[i]
RECURSIVE Labels(_, _)
Labels(counts, n) ==
    IF n = 0 THEN <<>> ELSE Labels(counts, n - 1) \o Repeat(n - 1, counts[n])

RECURSIVE SumAt(_, _, _, _, _)
SumAt(rows, cols, vals, cell, j) ==
    IF j = 0 THEN 0
    ELSE SumAt(rows, cols, vals, cell, j - 1)
         + (IF <<rows[j], cols[j]>> = cell THEN vals[j] ELSE 0)

\* SparseToDense with a fault: the two index rows are swapped
SparseToDense_swapped(rows, cols, vals, size) ==
    Tensor(size, [l \in 1..(size[1] * size[2]) |->
        SumAt(cols, rows, vals, Unravel(l - 1, size), Len(vals))])

\* torch.sparse.FloatTensor([rows, cols], vals, size).to_dense(): entries
\* with the same index are summed
SparseToDense(rows, cols, vals, size) ==
    Tensor(size, [l \in 1..(size[1] * size[2]) |->
        SumAt(rows, cols, vals, Unravel(l - 1, size), Len(vals))])

to_sparse_dim(x) ==
    LET all_sparse == to_sparse(x)
        nd == Len(x.shape)
        nnz == Len(all_sparse.values)
        all_indices == [j \in 1..nnz |-> SubSeq(all_sparse.indices[j], 1, nd - 1)]
        last_indice == [j \in 1..nnz |-> all_sparse.indices[j][nd]]
        u == unique_consecutive(all_indices)
        nu == Len(u.values)
        unique_indices ==
            Tensor(<<nd - 1, nu>>,
                   [l \in 1..((nd - 1) * nu) |->
                       u.values[((l - 1) % nu) + 1][((l - 1) \div nu) + 1]])
        tmp == Labels(u.counts, Len(u.counts))
        all_values == SparseToDense(tmp, last_indice, all_sparse.values,
                                    <<unique_indices.shape[2], x.shape[nd]>>)
    IN  [all_values |-> all_values, unique_indices |-> unique_indices]

\* ---- SparseConvTensor -----------------------------------------------------
\* the fields __init__ sets; indice_dict is a reference into the heap of dicts
SparseConvTensor(features, indices, spatial_shape, batch_size, grid, dictref) ==
    [features |-> features, indices |-> indices, spatial_shape |-> spatial_shape,
     batch_size |-> batch_size, indice_dict |-> dictref, grid |-> grid]

\* the constructor arguments from_dense passes to cls(...)
from_dense(x) ==
    LET spatial_shape == SubSeq(x.shape, 2, Len(x.shape) - 1)
        batch_size == x.shape[1]
        r == to_sparse_dim(x)
        new_indices_th == Permute(r.unique_indices, <<1, 0>>)
    IN  [features |-> r.all_values, indices |-> new_indices_th,
         spatial_shape |-> spatial_shape, batch_size |-> batch_size, grid |-> None]

RECURSIVE Choices(_, _)
Choices(cands, n) ==
    IF n = 0 THEN {<<>>}
    ELSE {Append(p, v) : p \in Choices(cands, n - 1), v \in cands[n]}

RECURSIVE SumOver(_, _)
SumOver(f, S) ==
    IF S = {} THEN 0
    ELSE LET i == CHOOSE j \in S : TRUE IN f[i] + SumOver(f, S \ {i})

\* scatter_nd with a fault: rows with the same index are added up, as
\* tensorflow's scatter_nd does
scatter_nd_accumulate(indices, updates, shape) ==
    LET ndim == indices.shape[Len(indices.shape)]
        n == Prod(indices.shape) \div ndim
        flatted(i) == [d \in 1..ndim |-> indices.data[(i - 1) * ndim + d]]
        head == SubSeq(shape, 1, ndim)
        inner == Prod(SubSeq(shape, ndim + 1, Len(shape)))
        inside(i) == \A d \in 1..ndim : flatted(i)[d] \in 0..(head[d] - 1)
        writers(l) == {i \in 1..n : Ravel(flatted(i), head) = (l - 1) \div inner}
        value(l) == [i \in 1..n |-> updates.data[(i - 1) * inner + ((l - 1) % inner) + 1]]
    IN  IF \E i \in 1..n : ~inside(i)
        THEN {[err |-> "IndexError", out |-> NoTensor]}
        ELSE {[err |-> "",
               out |-> Tensor(shape, [l \in 1..Prod(shape) |->
                                         SumOver(value(l), writers(l))])]}

\* scatter_nd: the set of results ret[slices] = updates can produce.  An index
\* outside the shape raises IndexError.  When several rows carry the same
\* index, torch leaves the winner undefined: each element holds the value of
\* one of the rows written there.
scatter_nd(indices, updates, shape) ==
    LET ndim == indices.shape[Len(indices.shape)]
        n == Prod(indices.shape) \div ndim
        flatted(i) == [d \in 1..ndim |-> indices.data[(i - 1) * ndim + d]]
        head == SubSeq(shape, 1, ndim)
        inner == Prod(SubSeq(shape, ndim + 1, Len(shape)))
        norm(i) == [d \in 1..ndim |->
                      IF flatted(i)[d] < 0 THEN flatted(i)[d] + head[d]
                      ELSE flatted(i)[d]]
        inside(i) == \A d \in 1..ndim : norm(i)[d] \in 0..(head[d] - 1)
        writers(l) == {i \in 1..n : Ravel(norm(i), head) = (l - 1) \div inner}
        cands == [l \in 1..Prod(shape) |->
                    IF writers(l) = {} THEN {0}
                    ELSE {updates.data[(i - 1) * inner + ((l - 1) % inner) + 1] :
                              i \in writers(l)}]
    IN  IF \E i \in 1..n : ~inside(i)
        THEN {[err |-> "IndexError", out |-> NoTensor]}
        ELSE {[err |-> "", out |-> Tensor(shape, d)] :
                  d \in Choices(cands, Prod(shape))}

\* list.insert(pos, v), pos 0-based
Insert(s, pos, v) == SubSeq(s, 1, pos) \o <<v>> \o SubSeq(s, pos + 1, Len(s))

\* trans_params with a fault: the channel axis is moved to the front
trans_params_front(ndim) == Insert([i \in 1..(ndim + 1) |-> i - 1], 0, ndim + 1)

\* trans_params = list(range(0, ndim + 1)); trans_params.insert(1, ndim + 1)
trans_params(ndim) == Insert([i \in 1..(ndim + 1) |-> i - 1], 1, ndim + 1)

\* list(self.spatial_shape)[::-1]
Reverse(q) == [i \in 1..Len(q) |-> q[Len(q) + 1 - i]]

\* dense with a fault: the spatial shape is taken in reverse order
dense_reversedShape(self, channels_first) ==
    LET output_shape == <<self.batch_size>> \o Reverse(self.spatial_shape)
                            \o <<self.features.shape[2]>>
        ndim == Len(self.spatial_shape)
    IN  {[err |-> r.err, res |-> r.out,
          out |-> IF r.err # "" \/ ~channels_first THEN r.out
                  ELSE Permute(r.out, trans_params(ndim))] :
            r \in scatter_nd(self.indices, self.features, output_shape)}

\* dense(): the possible outcomes; res is the channel-last scatter result
dense(self, channels_first) ==
    LET output_shape == <<self.batch_size>> \o self.spatial_shape
                            \o <<self.features.shape[2]>>
        ndim == Len(self.spatial_shape)
    IN  {[err |-> r.err, res |-> r.out,
          out |-> IF r.err # "" \/ ~channels_first THEN r.out
                  ELSE Permute(r.out, trans_params(ndim))] :
            r \in scatter_nd(self.indices, self.features, output_shape)}

dictGet(d, key) == (CHOOSE p \in d : p[1] = key)[2]

dictSet(d, key, v) == {p \in d : p[1] # key} \cup {<<key, v>>}

\* find_indice_pair with a fault: a missing key falls back to a cached rulebook
find_indice_pair_fallback(d, key) ==
    IF key = None THEN None
    ELSE IF \E p \in d : p[1] = key THEN dictGet(d, key)
    ELSE IF d # {} THEN (CHOOSE p \in d : TRUE)[2]
    ELSE None

find_indice_pair(d, key) ==
    IF key = None THEN None
    ELSE IF \E p \in d : p[1] = key THEN dictGet(d, key)
    ELSE None

spatial_size(self) == Prod(self.spatial_shape)

\* sparity as the fraction num / den
sparity(self) ==
    [num |-> self.indices.shape[1], den |-> Prod(self.spatial_shape) * self.batch_size]

\* ---- inputs ---------------------------------------------------------------
Max(a, b) == IF a > b THEN a ELSE b

Nnz(f) == Cardinality({l \in DOMAIN f : f[l] # 0})

\* shapes [batch, s1..sk, channels] of channel-last dense arrays
Shapes ==
    {s \in UNION {[1..n -> 1..MaxVolume] : n \in 3..(MaxRank + 2)} :
        Prod(s) <= MaxVolume}

\* the buffers of m values with at most MaxNnz nonzero ones
Buffers ==
    [m \in 0..MaxVolume |-> {f \in [1..m -> Values] : Nnz(f) <= MaxNnz}]

Sites(s) ==
    LET head == SubSeq(s, 1, Len(s) - 1)
    IN  {Unravel(l, head) : l \in 0..(Prod(head) - 1)}

\* constructor arguments: n rows of coordinates co and features fe
Args(s, n, co, fe, grid) ==
    LET w == Len(s) - 1
    IN  [features |-> Tensor(<<n, s[Len(s)]>>, fe),
         indices |-> Tensor(<<n, w>>,
             [l \in 1..(n * w) |-> co[((l - 1) \div w) + 1][((l - 1) % w) + 1]]),
         spatial_shape |-> SubSeq(s, 2, Len(s) - 1),
         batch_size |-> s[1],
         grid |-> grid]

\* the numbers of rows of a directly constructed tensor of shape s: features
\* and indices hold at most MaxVolume elements each
Points(s) ==
    {m \in 0..MaxPoints : /\ m * s[Len(s)] <= MaxVolume
                          /\ m * (Len(s) - 1) <= MaxVolume}

\* the tensors of the frame scenario: two sites, a repeated coordinate, a
\* coordinate outside spatial_shape; with and without a grid
SmallArgs ==
    {Args(<<1, 2, 1>>, Len(co), co, [l \in 1..Len(co) |-> 1], g) :
        co \in {<<<<0, 1>>, <<0, 0>>>>, <<<<0, 0>>, <<0, 0>>>>, <<<<0, 2>>>>},
        g \in {None, "grid"}}

\* the tensor of the cache scenario
CacheArgs == Args(<<1, 2, 1>>, 1, <<<<0, 1>>>>, <<1>>, None)

\* ---- state ----------------------------------------------------------------
VARIABLES
    tensors,   \* the SparseConvTensor objects, in order of creation
    dicts,     \* the heap of indice_dict dictionaries (sets of <<key, value>>)
    stored,    \* history: per object, the last rulebook stored under each key
    made,      \* history: how each object was made, and from which dense array
    ret        \* the last call and what it returned

vars == <<tensors, dicts, stored, made, ret>>

NoRet ==
    [op |-> "", self |-> 0, key |-> None, cf |-> FALSE, err |-> "",
     out |-> NoTensor, res |-> NoTensor, val |-> None, num |-> 0, den |-> 0]

Init ==
    /\ tensors = <<>>
    /\ dicts = <<>>
    /\ stored = <<>>
    /\ made = <<>>
    /\ ret = NoRet

\* NewDict with a fault: one dictionary shared by every object
NewDict_shared(heap) == 1

\* self.indice_dict = {}: a dictionary of its own for every object
NewDict(heap) == Len(heap) + 1

\* SparseConvTensor.__init__
Construct(a, how, op) ==
    LET ref == NewDict(dicts)
    IN  /\ tensors' = Append(tensors,
               SparseConvTensor(a.features, a.indices, a.spatial_shape,
                                a.batch_size, a.grid, ref))
        /\ dicts' = [i \in 1..Max(Len(dicts), ref) |->
                        IF i = ref THEN {} ELSE dicts[i]]
        /\ stored' = Append(stored, {})
        /\ made' = Append(made, how)
        /\ ret' = [NoRet EXCEPT !.op = op, !.num = Len(tensors) + 1]

New(a) == Construct(a, [kind |-> "init", x |-> NoTensor, of |-> 0], "__init__")

\* ToSparse.forward / ToSparseFunction.forward: SparseConvTensor.from_dense(x)
ToSparseForward(x, of) ==
    Construct(from_dense(x), [kind |-> "from_dense", x |-> x, of |-> of],
              "from_dense")

\* x.dense(channels_first)
Dense(i, channels_first, op) ==
    /\ i \in 1..Len(tensors)
    /\ \E r \in dense(tensors[i], channels_first) :
          ret' = [NoRet EXCEPT !.op = op, !.self = i, !.cf = channels_first,
                               !.err = r.err, !.out = r.out, !.res = r.res]
    /\ UNCHANGED <<tensors, dicts, stored, made>>

\* ToDense.forward: x.dense() with the default channels_first=True
ToDenseForward(i) == Dense(i, TRUE, "ToDense.forward")

FindIndicePair(i, key) ==
    /\ i \in 1..Len(tensors)
    /\ ret' = [NoRet EXCEPT !.op = "find_indice_pair", !.self = i, !.key = key,
                   !.val = find_indice_pair(dicts[tensors[i].indice_dict], key)]
    /\ UNCHANGED <<tensors, dicts, stored, made>>

\* a convolution caching its rulebook: x.indice_dict[key] = rulebook
Store(i, key, rb) ==
    /\ i \in 1..Len(tensors)
    /\ dicts' = [dicts EXCEPT ![tensors[i].indice_dict] = dictSet(@, key, rb)]
    /\ stored' = [stored EXCEPT ![i] = dictSet(@, key, rb)]
    /\ ret' = [NoRet EXCEPT !.op = "store", !.self = i, !.key = key, !.val = rb]
    /\ UNCHANGED <<tensors, made>>

\* an inverse convolution asking for the forward rulebook of its key
InverseConv(i, key) ==
    /\ i \in 1..Len(tensors)
    /\ LET datas == find_indice_pair(dicts[tensors[i].indice_dict], key)
       IN  ret' = [NoRet EXCEPT !.op = "inverse_conv", !.self = i, !.key = key,
                       !.val = datas,
                       !.err = IF datas = None THEN "MissingRulebookError" ELSE ""]
    /\ UNCHANGED <<tensors, dicts, stored, made>>

SpatialSize(i) ==
    /\ i \in 1..Len(tensors)
    /\ ret' = [NoRet EXCEPT !.op = "spatial_size", !.self = i,
                   !.num = spatial_size(tensors[i])]
    /\ UNCHANGED <<tensors, dicts, stored, made>>

Sparity(i) ==
    /\ i \in 1..Len(tensors)
    /\ ret' = [NoRet EXCEPT !.op = "sparity", !.self = i,
                   !.num = sparity(tensors[i]).num, !.den = sparity(tensors[i]).den]
    /\ UNCHANGED <<tensors, dicts, stored, made>>

\* removeGrid with a fault: the features are released with the grid
removeGrid_dropsFeatures(x) == [x EXCEPT !.grid = None, !.features = NoTensor]

\* x.grid = None
removeGrid(x) == [x EXCEPT !.grid = None]

\* RemoveGrid.forward: clears the grid and returns the same object
RemoveGridForward(i) ==
    /\ i \in 1..Len(tensors)
    /\ tensors' = [tensors EXCEPT ![i] = removeGrid(@)]
    /\ ret' = [NoRet EXCEPT !.op = "RemoveGrid.forward", !.self = i, !.num = i]
    /\ UNCHANGED <<dicts, stored, made>>

\* ---- the dense scenario: a dense array is converted to a tensor, and the
\* tensor back to dense arrays ------------------------------------------------
\* x is any channel-last dense array of a shape in Shapes
FromDenseInput ==
    /\ Len(tensors) = 0
    /\ \E s \in Shapes : \E d \in Buffers[Prod(s)] :
          ToSparseForward(Tensor(s, d), 0)

DenseCall == \E i \in 1..Len(tensors), cf \in BOOLEAN : Dense(i, cf, "dense")

ToDenseCall == \E i \in 1..Len(tensors) : ToDenseForward(i)

Next ==
    \/ FromDenseInput
    \/ DenseCall
    \/ ToDenseCall

Spec == Init /\ [][Next]_vars

\* ---- the sparse scenario: a tensor is constructed from coordinates and
\* features, converted to a channel-last dense array, and that array is
\* converted to a second tensor ----------------------------------------------
\* in-bounds coordinates in any order, repeated or not, with any feature rows
\* (all-zero rows included)
NewExplicit ==
    /\ Len(tensors) = 0
    /\ \E s \in Shapes : \E n \in Points(s) :
          \E co \in [1..n -> Sites(s)], fe \in Buffers[n * s[Len(s)]] :
              New(Args(s, n, co, fe, None))

DenseLast ==
    /\ Len(tensors) = 1
    /\ Dense(1, FALSE, "dense")

FromDenseResult ==
    /\ Len(tensors) = 1
    /\ ret.op = "dense" /\ ~ret.cf /\ ret.err = ""
    /\ ToSparseForward(ret.out, ret.self)

NextNew ==
    \/ NewExplicit
    \/ DenseLast
    \/ FromDenseResult

SpecNew == Init /\ [][NextNew]_vars

\* ---- the cache scenario: NumTensors objects, rulebooks stored and looked up -
NewCached ==
    /\ Len(tensors) < NumTensors
    /\ New(CacheArgs)

StoreCall == \E i \in 1..Len(tensors), k \in Keys, rb \in Rulebooks : Store(i, k, rb)

FindCall == \E i \in 1..Len(tensors), k \in Keys \cup {None} : FindIndicePair(i, k)

InverseConvCall == \E i \in 1..Len(tensors), k \in Keys \cup {None} : InverseConv(i, k)

NextCache ==
    \/ NewCached
    \/ StoreCall
    \/ FindCall
    \/ InverseConvCall

SpecCache == Init /\ [][NextCache]_vars

\* ---- the frame scenario: every operation on one object ---------------------
NewSmall ==
    /\ Len(tensors) = 0
    /\ \E a \in SmallArgs : New(a)

SpatialSizeCall == \E i \in 1..Len(tensors) : SpatialSize(i)

SparityCall == \E i \in 1..Len(tensors) : Sparity(i)

RemoveGridCall == \E i \in 1..Len(tensors) : RemoveGridForward(i)

NextFrame ==
    \/ NewSmall
    \/ StoreCall
    \/ FindCall
    \/ DenseCall
    \/ ToDenseCall
    \/ SpatialSizeCall
    \/ SparityCall
    \/ RemoveGridCall

SpecFrame == Init /\ [][NextFrame]_vars

\* ---- properties -------------------------------------------------------------
NRows(t) == t.indices.shape[1]

Coord(t, n) == Row(t.indices, n)

CoordSet(t) == {Coord(t, n) : n \in 1..NRows(t)}

Distinct(t) == \A m, n \in 1..NRows(t) : m # n => Coord(t, m) # Coord(t, n)

\* [batch_size, *spatial_shape]
GridShape(t) == <<t.batch_size>> \o t.spatial_shape

InBounds(t) ==
    \A n \in 1..NRows(t) : \A d \in 1..Len(GridShape(t)) :
        Coord(t, n)[d] \in 0..(GridShape(t)[d] - 1)

ChannelLastShape(t) == GridShape(t) \o <<t.features.shape[2]>>

AllSites(t) == Sites(ChannelLastShape(t))

Channels(t) == 0..(t.features.shape[2] - 1)

RowsAt(t, site) == {n \in 1..NRows(t) : Coord(t, n) = site}

ZeroRow(t, n) == \A c \in 1..t.features.shape[2] : Row(t.features, n)[c] = 0

DenseReturned == ret.op \in {"dense", "ToDense.forward"}

\* C1 as claimed: dense() on a tensor whose indices repeat a coordinate row
\* ends in an error.
C1_DuplicateIsError ==
    (DenseReturned /\ ~Distinct(tensors[ret.self])) => ret.err # ""

\* C1, amended: dense() on a tensor whose in-bounds indices repeat a
\* coordinate row raises no error; every element of the returned array at a
\* repeated coordinate holds the value one of the rows carrying that
\* coordinate has in that channel, every element at a coordinate carried by
\* one row holds that row's value, and every other element is zero.
C1_DuplicateOverwrites ==
    (DenseReturned /\ ~ret.cf /\ ~Distinct(tensors[ret.self])
        /\ InBounds(tensors[ret.self]))
    => LET t == tensors[ret.self]
       IN  /\ ret.err = ""
           /\ ret.out.shape = ChannelLastShape(t)
           /\ \A site \in AllSites(t) : \A c \in Channels(t) :
                 At(ret.out, site \o <<c>>) \in
                     IF RowsAt(t, site) = {} THEN {0}
                     ELSE {Row(t.features, n)[c + 1] : n \in RowsAt(t, site)}

\* a repeated coordinate with two different feature rows was scattered
C1_Witness ==
    /\ DenseReturned /\ ~ret.cf /\ ret.err = ""
    /\ \E m, n \in 1..NRows(tensors[ret.self]) :
          /\ m # n
          /\ Coord(tensors[ret.self], m) = Coord(tensors[ret.self], n)
          /\ Row(tensors[ret.self].features, m) # Row(tensors[ret.self].features, n)

\* C2: for a tensor with pairwise distinct in-bounds coordinates,
\* dense(channels_first=False) returns an array of shape
\* [batch_size, *spatial_shape, channels] whose cell at each active coordinate
\* is that site's feature row and whose other cells are zero.
C2_DenseChannelLast ==
    (DenseReturned /\ ~ret.cf /\ Distinct(tensors[ret.self])
        /\ InBounds(tensors[ret.self]))
    => LET t == tensors[ret.self]
       IN  /\ ret.err = ""
           /\ ret.out.shape = ChannelLastShape(t)
           /\ Len(ret.out.data) = Prod(ChannelLastShape(t))
           /\ \A site \in AllSites(t) : \A c \in Channels(t) :
                 At(ret.out, site \o <<c>>) =
                     IF RowsAt(t, site) = {} THEN 0
                     ELSE Row(t.features, CHOOSE n \in RowsAt(t, site) : TRUE)[c + 1]

\* two sites given out of row-major order, in different batch elements or
\* spatial positions, one cell left inactive
C2_Witness ==
    /\ DenseReturned /\ ~ret.cf /\ ret.err = ""
    /\ LET t == tensors[ret.self]
       IN  /\ NRows(t) = 2 /\ Distinct(t)
           /\ Ravel(Coord(t, 1), GridShape(t)) > Ravel(Coord(t, 2), GridShape(t))
           /\ ~ZeroRow(t, 1)
           /\ \E site \in AllSites(t) : RowsAt(t, site) = {}

\* the sites of the dense array x with at least one nonzero channel
ActiveSites(x) ==
    {site \in Sites(x.shape) :
        \E c \in 0..(x.shape[Len(x.shape)] - 1) : At(x, site \o <<c>>) # 0}

FromDenseObjects == {i \in 1..Len(tensors) : made[i].kind = "from_dense"}

\* C3: the coordinate rows of from_dense(x) are exactly the sites of x with a
\* nonzero channel, each once, in ascending row-major order.
C3_ActiveSitesOnceInOrder ==
    \A i \in FromDenseObjects :
        LET t == tensors[i]
            x == made[i].x
            head == SubSeq(x.shape, 1, Len(x.shape) - 1)
        IN  /\ t.indices.shape = <<Cardinality(ActiveSites(x)), Len(head)>>
            /\ Len(t.indices.data) = Prod(t.indices.shape)
            /\ CoordSet(t) = ActiveSites(x)
            /\ \A n \in 1..(NRows(t) - 1) :
                  Ravel(Coord(t, n), head) < Ravel(Coord(t, n + 1), head)

\* two sites of a 2-d spatial shape with equal feature rows are both listed
C3_Witness ==
    \E i \in FromDenseObjects :
        /\ NRows(tensors[i]) = 2
        /\ Row(tensors[i].features, 1) = Row(tensors[i].features, 2)
        /\ Len(tensors[i].spatial_shape) = 2

\* C4: from_dense(x) is row-aligned: features and indices have the same
\* number of rows, and row n of features is the whole channel vector of x at
\* the coordinate in row n of indices.
C4_RowAligned ==
    \A i \in FromDenseObjects :
        LET t == tensors[i]
            x == made[i].x
        IN  /\ t.features.shape = <<NRows(t), x.shape[Len(x.shape)]>>
            /\ Len(t.features.data) = Prod(t.features.shape)
            /\ \A n \in 1..NRows(t) : \A c \in Channels(t) :
                  Row(t.features, n)[c + 1] = At(x, Coord(t, n) \o <<c>>)

\* two active sites, the first with a zero channel next to a nonzero one
C4_Witness ==
    \E i \in FromDenseObjects :
        /\ NRows(tensors[i]) = 2
        /\ tensors[i].features.shape[2] >= 2
        /\ \E c, e \in 1..tensors[i].features.shape[2] :
              /\ Row(tensors[i].features, 1)[c] = 0
              /\ Row(tensors[i].features, 1)[e] # 0

\* the tensors made by from_dense from the channel-last dense() of a tensor
\* with pairwise distinct coordinates
RoundTrips ==
    {i \in FromDenseObjects : made[i].of # 0 /\ Distinct(tensors[made[i].of])}

\* C5 as claimed: from_dense(t.dense(channels_first=False)) has the coordinate
\* set of t.
C5_SameActiveSet ==
    \A i \in RoundTrips : CoordSet(tensors[i]) = CoordSet(tensors[made[i].of])

\* C5, amended: from_dense(t.dense(channels_first=False)) has as coordinates
\* exactly the coordinates of t whose feature row has a nonzero channel; a
\* coordinate of t whose feature row is all zero is dropped.
C5_NonzeroRowsKept ==
    \A i \in RoundTrips :
        LET t == tensors[made[i].of]
        IN  CoordSet(tensors[i]) = {Coord(t, n) : n \in {m \in 1..NRows(t) : ~ZeroRow(t, m)}}

\* a tensor with an all-zero row and a nonzero row went through the round trip
C5_Witness ==
    \E i \in RoundTrips :
        LET t == tensors[made[i].of]
        IN  /\ NRows(t) = 2
            /\ \E m, n \in 1..2 : ZeroRow(t, m) /\ ~ZeroRow(t, n)
            /\ NRows(tensors[i]) = 1

\* the rulebook last stored under key on object i, None when there is none
LastStored(i, key) ==
    IF key # None /\ \E p \in stored[i] : p[1] = key
    THEN (CHOOSE p \in stored[i] : p[1] = key)[2]
    ELSE None

\* C6: the cache is empty at construction; find_indice_pair(key) returns the
\* rulebook most recently stored under key on that same tensor, and None when
\* key is None or was never stored on it, whatever was stored on other tensors.
C6_CacheKeepsStores ==
    /\ ret.op = "__init__" => dicts[tensors[ret.num].indice_dict] = {}
    /\ ret.op = "find_indice_pair" => ret.val = LastStored(ret.self, ret.key)
    /\ \A i \in 1..Len(tensors) : \A k \in Keys \cup {None} :
          find_indice_pair(dicts[tensors[i].indice_dict], k) = LastStored(i, k)

\* a lookup returns the rulebook stored last under a key for which another
\* tensor holds a different rulebook and this tensor holds a second key
C6_Witness ==
    /\ ret.op = "find_indice_pair" /\ ret.val \in Rulebooks
    /\ Cardinality(stored[ret.self]) = 2
    /\ \E j \in 1..Len(tensors) :
          /\ j # ret.self
          /\ LastStored(j, ret.key) \in Rulebooks \ {ret.val}

C8_ChannelsFirst ==
    (DenseReturned /\ ret.cf /\ ret.err = "")
    => LET t == tensors[ret.self]
       IN  /\ ret.res.shape = ChannelLastShape(t)
           /\ ret.out.shape = <<t.batch_size, t.features.shape[2]>> \o t.spatial_shape
           /\ Len(ret.out.data) = Prod(ret.out.shape)
           /\ \A site \in AllSites(t) : \A c \in Channels(t) :
                 At(ret.out, <<site[1], c>> \o Tail(site)) = At(ret.res, site \o <<c>>)

\* ToDense.forward returned a two-channel array over a 2-d spatial shape with
\* a nonzero element
C8_Witness ==
    /\ ret.op = "ToDense.forward" /\ ret.cf /\ ret.err = ""
    /\ Len(tensors[ret.self].spatial_shape) = 2
    /\ tensors[ret.self].features.shape[2] >= 2
    /\ Prod(tensors[ret.self].spatial_shape) >= 2
    /\ Nnz(ret.out.data) >= 1

\* C9: from_dense(x).dense(channels_first=False) equals x, and the tensor in
\* between has spatial_shape = x.shape[1:-1] and batch_size = x.shape[0].
C9_RoundTrip ==
    /\ \A i \in FromDenseObjects :
          /\ tensors[i].spatial_shape = [d \in 1..(Len(made[i].x.shape) - 2) |->
                                            made[i].x.shape[d + 1]]
          /\ tensors[i].batch_size = made[i].x.shape[1]
    /\ (DenseReturned /\ ~ret.cf /\ ret.self \in FromDenseObjects)
       => (ret.err = "" /\ ret.out = made[ret.self].x)

\* a dense array with two active sites came back from the round trip
C9_Witness ==
    /\ DenseReturned /\ ~ret.cf /\ ret.self \in FromDenseObjects
    /\ NRows(tensors[ret.self]) = 2
    /\ tensors[ret.self].batch_size = 2
    /\ ret.out = made[ret.self].x

ReadOps == {"dense", "ToDense.forward", "find_indice_pair", "spatial_size",
            "sparity", "RemoveGrid.forward"}

\* C10: dense(), find_indice_pair(), spatial_size, sparity and
\* RemoveGrid.forward, failing or not, leave features, indices, spatial_shape,
\* batch_size and the rulebook cache of every tensor as they were; only grid
\* changes, and only by RemoveGrid.forward setting it to None and returning
\* the same object.
C10_NoMutation ==
    [][ret'.op \in ReadOps =>
          /\ Len(tensors') = Len(tensors)
          /\ dicts' = dicts
          /\ \A i \in 1..Len(tensors) :
                /\ [tensors'[i] EXCEPT !.grid = None] = [tensors[i] EXCEPT !.grid = None]
                /\ tensors'[i].grid # tensors[i].grid =>
                      /\ ret'.op = "RemoveGrid.forward"
                      /\ ret'.self = i /\ ret'.num = i
                      /\ tensors'[i].grid = None]_vars

\* RemoveGrid.forward returned a tensor whose cache holds a rulebook
C10_Witness ==
    /\ ret.op = "RemoveGrid.forward"
    /\ tensors[ret.self].grid = None
    /\ dicts[tensors[ret.self].indice_dict] # {}
    /\ NRows(tensors[ret.self]) = 2

====
